---------------------------- MODULE Spec2Model ----------------------------
(***************************************************************************)
(* A model of app.py: the Streamlit conversation monitor.                  *)
(*                                                                         *)
(* Text is a sequence of one-character strings, so that str.lower and the  *)
(* substring test `keyword in text_lower` are computed, not assumed.       *)
(* A sentiment score is held in thousandths (0.8 is 800, 0.95 is 950).     *)
(* The clock counts half seconds; strftime keeps whole seconds only.       *)
(***************************************************************************)
EXTENDS Integers, Sequences, FiniteSets, TLC

VARIABLES
    conversations,   \* st.session_state.conversations
    speaker_count,   \* st.session_state.speaker_count
    risk_level,      \* st.session_state.risk_level
    current_text,    \* st.session_state.current_text
    is_recording,    \* st.session_state.is_recording (webrtc state.playing)
    receiver,        \* frames waiting in webrtc_ctx.audio_receiver
    audio_frames,    \* main(): the batch get_frames returned, not yet looped over
    pc,              \* main(): "idle" (no script run) or "loop" (inside a run)
    button,          \* "save" when Save Conversation was clicked for this run
    clock,           \* datetime.datetime.now(), in half seconds
    files,           \* the working directory: filename -> record blocks written
    alerts,          \* indices of the entries the High Risk st.error was raised for
    history_view,    \* the risk badges the Conversation History section of this run drew
    notice,          \* how the last script run ended: Save's message, or an exception
    classify_text,   \* detect_risk_level: the text argument
    classify_sentiment, \* detect_risk_level: what sentiment_analyzer(text)[0] returned
    classify_out     \* detect_risk_level: the risk level returned

session == <<conversations, speaker_count, risk_level, current_text>>
outputs == <<files, alerts, history_view, notice>>
classify == <<classify_text, classify_sentiment, classify_out>>
vars == <<conversations, speaker_count, risk_level, current_text, is_recording,
          receiver, audio_frames, pc, button, clock, files, alerts,
          history_view, notice, classify_text, classify_sentiment, classify_out>>

---------------------------------------------------------------------------
(* Bounds *)

MaxHistory == 2    \* frames in flight plus entries stored
MaxSpeakers == 1   \* clicks of Add New Speaker
MaxClock == 2      \* half seconds the clock may advance
MaxLen == 4        \* length of a text given to detect_risk_level on its own

---------------------------------------------------------------------------
(* Text *)

UpperChars == <<"A","B","C","D","E","F","G","H","I","J","K","L","M",
                "N","O","P","Q","R","S","T","U","V","W","X","Y","Z">>
LowerChars == <<"a","b","c","d","e","f","g","h","i","j","k","l","m",
                "n","o","p","q","r","s","t","u","v","w","x","y","z">>

lower_char(c) ==
    IF \E i \in 1..26 : UpperChars[i] = c
    THEN LowerChars[CHOOSE i \in 1..26 : UpperChars[i] = c]
    ELSE c

lower_identity(text) == text

\* str.lower()
lower(text) == [i \in 1..Len(text) |-> lower_char(text[i])]

\* Python's `keyword in text`: keyword is a contiguous substring of text
contains(keyword, text) ==
    \E i \in 0..(Len(text) - Len(keyword)) :
        SubSeq(text, i + 1, i + Len(keyword)) = keyword

RISK_KEYWORDS == <<
    <<"s","u","i","c","i","d","e">>,
    <<"k","i","l","l">>,
    <<"h","u","r","t">>,
    <<"h","a","r","m">>,
    <<"d","i","e">>,
    <<"e","n","d"," ","m","y"," ","l","i","f","e">>,
    <<"s","e","l","f"," ","h","a","r","m">>,
    <<"c","u","t"," ","m","y","s","e","l","f">>,
    <<"o","v","e","r","d","o","s","e">>,
    <<"p","i","l","l","s">> >>

\* Python's None, apart from every text and every speaker name
None == <<"None">>

\* Python truthiness of a str or None: `if text:`
truthy(text) == text # None /\ text # <<>>

---------------------------------------------------------------------------
(* detect_risk_level *)

MediumThreshold == 800   \* sentiment_score > 0.8
HighThreshold == 950     \* sentiment_score > 0.95

\* The keyword loop of detect_risk_level
keyword_hit(text) ==
    LET text_lower == lower(text)
    IN  \E k \in 1..Len(RISK_KEYWORDS) : contains(RISK_KEYWORDS[k], text_lower)

\* detect_risk_level(text), given what sentiment_analyzer(text)[0] returned.
\* The branches are tried in the order the code writes them.
detect_risk_level(text, sentiment_result) ==
    LET sentiment_score == sentiment_result.score
        sentiment_label == sentiment_result.label
    IN  IF keyword_hit(text)
        THEN <<"High", sentiment_score>>
        ELSE IF sentiment_label = "NEGATIVE" /\ sentiment_score > MediumThreshold
        THEN <<"Medium", sentiment_score>>
        ELSE IF sentiment_label = "NEGATIVE" /\ sentiment_score > HighThreshold
        THEN <<"High", sentiment_score>>
        ELSE <<"Normal", sentiment_score>>


---------------------------------------------------------------------------
(* The inputs the environment supplies *)

\* What speech recognition makes of a frame: a transcript (heard), or an
\* exception such as UnknownValueError (not heard)
Transcripts == { <<>>, <<" ">>, <<"D","i","e">>, <<"b","a","d">> }
Frames == { [heard |-> TRUE, text |-> t] : t \in Transcripts }
          \cup { [heard |-> FALSE, text |-> <<>>] }

\* sentiment_analyzer(text)[0] when the pipeline answers: a fixed model, so
\* one result per text
sentiment_analyzer(text) ==
    CASE text = <<"D","i","e">> -> [label |-> "NEGATIVE", score |-> 970]
      [] text = <<"b","a","d">> -> [label |-> "NEGATIVE", score |-> 880]
      [] OTHER                  -> [label |-> "POSITIVE", score |-> 600]

\* The inputs detect_risk_level is checked on by itself
Alphabet == {"d", "i", "e", "D", "I", "E"}
Texts == UNION { [1..n -> Alphabet] : n \in 0..MaxLen }
Labels == {"POSITIVE", "NEGATIVE"}
Scores == {0, 300, 800, 801, 880, 950, 951, 970, 1000}

---------------------------------------------------------------------------
(* Helpers of main() and save_conversation *)

\* f"Person{i+1}" for i in range(speaker_count)
Person(i) == <<"Person", i>>
speaker_options(count) == [i \in 1..count |-> Person(i)]

\* st.selectbox(label, options): one of the options, None when there is none
selectbox(options) ==
    IF options = <<>> THEN {None} ELSE { options[i] : i \in 1..Len(options) }

\* strftime("%Y-%m-%d %H:%M:%S") and strftime("%Y%m%d_%H%M%S"): whole seconds
strftime_entry(now) == <<"%Y-%m-%d %H:%M:%S", now \div 2>>
strftime_file(now) == <<"conversation_", "%Y%m%d_%H%M%S", now \div 2, ".txt">>

\* f"{x:.2f}" of a score in thousandths: hundredths, rounded to nearest (the
\* scores of the bounds have no thousandths digit of 5, where the float decides)
format_2f(score) == (score + 5) \div 10

\* audio_frame_callback(frame): the recognised text, or None (the recogniser
\* raised and `except Exception` returned None, or `if text:` failed)
audio_frame_callback(frame) ==
    IF ~frame.heard THEN None
    ELSE IF truthy(frame.text) THEN frame.text
    ELSE None

\* conversation_entry
conversation_entry(now, speaker, text, risk, sentiment_value) ==
    [timestamp |-> strftime_entry(now), speaker |-> speaker, text |-> text,
     risk_level |-> risk, sentiment_score |-> sentiment_value]

prepend(list, entry) == <<entry>> \o list

\* st.session_state.conversations.append(conversation_entry)
append(list, entry) == Append(list, entry)

alert_unless_normal(risk) == risk # "Normal"

\* `if risk_level == "High": st.error("High Risk Detected ...")`
raises_alert(risk) == risk = "High"

\* The two lines save_conversation writes for one entry
record_block(conv) ==
    << <<conv.timestamp, conv.speaker, conv.text>>,
       <<conv.risk_level, format_2f(conv.sentiment_score)>> >>

written_without_last(convs) ==
    [i \in 1..(Len(convs) - 1) |-> record_block(convs[i])]

\* What save_conversation writes: one block per entry, in list order
written(convs) == [i \in 1..Len(convs) |-> record_block(convs[i])]

\* open(filename, "w") ... : the file is created, or truncated and rewritten
write_file(dir, filename, content) ==
    [f \in (DOMAIN dir) \cup {filename} |->
        IF f = filename THEN content ELSE dir[f]]

\* The Conversation History section: one badge per entry
render_history(convs) ==
    [i \in 1..Len(convs) |->
        IF convs[i].risk_level = "High" THEN <<"error", convs[i].risk_level>>
        ELSE IF convs[i].risk_level = "Medium" THEN <<"warning", convs[i].risk_level>>
        ELSE <<"success", convs[i].risk_level>>]

---------------------------------------------------------------------------
(* The session *)

\* initialize_session_state, an empty directory, no script running
SessionInit ==
    /\ conversations = <<>>
    /\ speaker_count = 0
    /\ risk_level = "Normal"
    /\ current_text = <<>>
    /\ is_recording = FALSE
    /\ receiver = <<>>
    /\ audio_frames = <<>>
    /\ pc = "idle"
    /\ button = "none"
    /\ clock = 0
    /\ files = <<>>
    /\ alerts = <<>>
    /\ history_view = <<>>
    /\ notice = <<"none">>

Init ==
    /\ SessionInit
    /\ classify_text = <<>>
    /\ classify_sentiment = [label |-> "POSITIVE", score |-> 0]
    /\ classify_out = "idle"

\* on_change: the stream starts or stops; is_recording follows state.playing.
\* A receiver belongs to one playing stream.
OnChange ==
    /\ pc = "idle"
    /\ is_recording' = ~is_recording
    /\ receiver' = <<>>
    /\ UNCHANGED <<session, audio_frames, pc, button, clock, outputs, classify>>

\* The browser delivers one more audio frame to the receiver.  A frame that
\* arrives during a script run waits for the next run's get_frames, exactly as
\* one that arrives right after the run, so arrivals are taken between runs.
FrameArrives ==
    /\ is_recording
    /\ pc = "idle"
    /\ Len(receiver) + Len(audio_frames) + Len(conversations) < MaxHistory
    /\ \E frame \in Frames : receiver' = Append(receiver, frame)
    /\ UNCHANGED <<session, is_recording, audio_frames, pc, button, clock,
                   outputs, classify>>

\* Time passes
Tick ==
    /\ clock < MaxClock
    /\ clock' = clock + 1
    /\ UNCHANGED <<session, is_recording, receiver, audio_frames, pc, button,
                   outputs, classify>>

\* A script run starts: main() down to the `for audio_frame in audio_frames`.
\* A click of Add New Speaker is served here; a click of Save Conversation is
\* served after the loop.  get_frames returns all frames waiting; with none it
\* raises queue.Empty, which main() passes over.
MainStart ==
    /\ pc = "idle"
    /\ \E b \in {"none", "add", "save"} :
        /\ b = "add" => speaker_count < MaxSpeakers
        /\ button' = IF b = "save" THEN "save" ELSE "none"
        /\ speaker_count' = IF b = "add" THEN speaker_count + 1 ELSE speaker_count
    /\ IF is_recording /\ receiver # <<>>
       THEN audio_frames' = receiver /\ receiver' = <<>>
       ELSE audio_frames' = <<>> /\ UNCHANGED receiver
    /\ pc' = "loop"
    /\ notice' = <<"none">>
    /\ history_view' = <<>>
    /\ UNCHANGED <<conversations, risk_level, current_text, is_recording, clock,
                   files, alerts, classify>>

\* Loop body, `if text:` fails: the frame gave no usable text
LoopSkip ==
    /\ pc = "loop" /\ audio_frames # <<>>
    /\ ~truthy(audio_frame_callback(Head(audio_frames)))
    /\ audio_frames' = Tail(audio_frames)
    /\ UNCHANGED <<session, is_recording, receiver, pc, button, clock, outputs,
                   classify>>

\* Loop body, `if text:` holds and the sentiment pipeline answers
LoopAppend ==
    /\ pc = "loop" /\ audio_frames # <<>>
    /\ truthy(audio_frame_callback(Head(audio_frames)))
    /\ LET text == audio_frame_callback(Head(audio_frames))
       IN  \E speaker \in selectbox(speaker_options(speaker_count)) :
              LET result == detect_risk_level(text, sentiment_analyzer(text))
                  entry == conversation_entry(clock, speaker, text,
                                              result[1], result[2])
              IN  /\ current_text' = text
                  /\ conversations' = append(conversations, entry)
                  /\ alerts' = IF raises_alert(result[1])
                               THEN Append(alerts, Len(conversations'))
                               ELSE alerts
    /\ audio_frames' = Tail(audio_frames)
    /\ UNCHANGED <<speaker_count, risk_level, is_recording, receiver, pc, button,
                   clock, files, history_view, notice, classify>>

\* Loop body, `if text:` holds and sentiment_analyzer(text) raises: nothing in
\* main() catches it (only queue.Empty is caught), so the script run ends there
LoopScorerFails ==
    /\ pc = "loop" /\ audio_frames # <<>>
    /\ truthy(audio_frame_callback(Head(audio_frames)))
    /\ current_text' = audio_frame_callback(Head(audio_frames))
    /\ notice' = <<"exception", "sentiment_analyzer">>
    /\ audio_frames' = <<>>
    /\ pc' = "idle"
    /\ button' = "none"
    /\ UNCHANGED <<conversations, speaker_count, risk_level, is_recording,
                   receiver, clock, files, alerts, history_view, classify>>

\* After the loop: the Conversation History section, then the Save button
MainFinish ==
    /\ pc = "loop" /\ audio_frames = <<>>
    /\ history_view' = render_history(conversations)
    /\ IF button = "save"
       THEN IF conversations # <<>>
            THEN /\ files' = write_file(files, strftime_file(clock),
                                        written(conversations))
                 /\ notice' = <<"saved", strftime_file(clock)>>
            ELSE /\ notice' = <<"No conversation to save yet">>
                 /\ UNCHANGED files
       ELSE UNCHANGED <<files, notice>>
    /\ pc' = "idle"
    /\ button' = "none"
    /\ UNCHANGED <<session, is_recording, receiver, audio_frames, clock, alerts,
                   classify>>

Next ==
    \/ OnChange
    \/ FrameArrives
    \/ Tick
    \/ MainStart
    \/ LoopSkip
    \/ LoopAppend
    \/ LoopScorerFails
    \/ MainFinish

Spec == Init /\ [][Next]_vars

---------------------------------------------------------------------------
(* detect_risk_level by itself, on every text, label and score of the bounds *)

InitClassify ==
    /\ SessionInit
    /\ classify_text \in Texts
    /\ classify_sentiment \in [label : Labels, score : Scores]
    /\ classify_out = "pending"

Classify ==
    /\ classify_out = "pending"
    /\ classify_out' = detect_risk_level(classify_text, classify_sentiment)[1]
    /\ UNCHANGED <<session, is_recording, receiver, audio_frames, pc, button,
                   clock, outputs, classify_text, classify_sentiment>>

NextClassify == Classify

SpecClassify == InitClassify /\ [][NextClassify]_vars

---------------------------------------------------------------------------
(* Properties of detect_risk_level, under SpecClassify *)

\* A risk keyword occurs in text when case is ignored, letter by letter
HasKeywordAnyCase(text) ==
    \E k \in 1..Len(RISK_KEYWORDS) :
        \E i \in 0..(Len(text) - Len(RISK_KEYWORDS[k])) :
            \A j \in 1..Len(RISK_KEYWORDS[k]) :
                lower_char(text[i + j]) = RISK_KEYWORDS[k][j]

\* C1: with no risk keyword in the text and a NEGATIVE label, the result is
\* High for a score above 0.95, Medium for a score above 0.80 and up to 0.95,
\* and Normal for a score up to 0.80.
C1_SentimentTiers ==
    (/\ classify_out # "pending"
     /\ ~HasKeywordAnyCase(classify_text)
     /\ classify_sentiment.label = "NEGATIVE")
    => classify_out =
         (IF classify_sentiment.score > HighThreshold THEN "High"
          ELSE IF classify_sentiment.score > MediumThreshold THEN "Medium"
          ELSE "Normal")

\* C2: a text that contains a risk keyword in any mixture of case is High,
\* whatever the sentiment label and score.
C2_KeywordIsHigh ==
    (classify_out # "pending" /\ HasKeywordAnyCase(classify_text))
    => classify_out = "High"

\* C2 happens: "DiE" with a POSITIVE label and score 0.0 came out High
C2_Witness ==
    /\ classify_text = <<"D","i","E">>
    /\ classify_sentiment = [label |-> "POSITIVE", score |-> 0]
    /\ classify_out = "High"

---------------------------------------------------------------------------
(* Properties of the session, under Spec *)

Last(list) == list[Len(list)]

\* A step of main() that takes a frame with usable text off the batch
TakesUtterance ==
    /\ pc = "loop" /\ audio_frames # <<>>
    /\ truthy(audio_frame_callback(Head(audio_frames)))
    /\ audio_frames' # audio_frames

\* A step of main() that passes the Save Conversation button with a click
SaveStep ==
    /\ pc = "loop" /\ audio_frames = <<>> /\ button = "save"
    /\ pc' = "idle"

\* C3: the session's risk_level is the risk level of the entry appended last,
\* and Normal while nothing has been appended.
C3_LastRiskTier ==
    risk_level = IF conversations = <<>> THEN "Normal"
                 ELSE Last(conversations).risk_level

\* C4: every stored entry's speaker is one of Person1..Person<speaker_count>
\* (an append for any other speaker is rejected and stores nothing).
C4_SpeakersRegistered ==
    \A i \in 1..Len(conversations) :
        \E n \in 1..speaker_count : conversations[i].speaker = Person(n)

\* How often entry i was alerted
AlertCount(log, i) == Cardinality({ a \in 1..Len(log) : log[a] = i })

\* C5: the High Risk alert is raised only by the step that appends an entry
\* whose risk level is High, for that entry, and so every stored High entry
\* has been alerted exactly once and every Medium or Normal entry never.
C5_EscalationOncePerHigh ==
    [][ /\ alerts' # alerts =>
            /\ Len(conversations') = Len(conversations) + 1
            /\ Last(conversations').risk_level = "High"
            /\ alerts' = Append(alerts, Len(conversations'))
        /\ \A i \in 1..Len(conversations') :
            AlertCount(alerts', i) =
                IF conversations'[i].risk_level = "High" THEN 1 ELSE 0
      ]_vars

\* C5 happens: a High entry alerted once, then a Medium entry not alerted, and
\* the history drawn again by a later script run
C5_Witness ==
    /\ Len(conversations) = 2
    /\ conversations[1].risk_level = "High"
    /\ conversations[2].risk_level = "Medium"
    /\ alerts = <<1>>
    /\ pc = "idle" /\ Len(history_view) = 2

\* C6: the history only grows at its end: a step leaves it alone or adds one
\* entry after the existing ones, and the entry added carries the recognised
\* text, the speaker selected, the time of the append and the score and risk
\* level detect_risk_level gave for the text.
C6_AppendOnly ==
    [][ \/ conversations' = conversations
        \/ /\ Len(conversations') = Len(conversations) + 1
           /\ SubSeq(conversations', 1, Len(conversations)) = conversations
           /\ TakesUtterance
           /\ LET e == Last(conversations')
                  text == audio_frame_callback(Head(audio_frames))
              IN  /\ e.text = text
                  /\ e.timestamp = strftime_entry(clock)
                  /\ e.speaker \in selectbox(speaker_options(speaker_count))
                  /\ <<e.risk_level, e.sentiment_score>> =
                        detect_risk_level(text, sentiment_analyzer(text))
      ]_vars

\* C6 happens: a save after the first append, then a second, different entry
C6_Witness ==
    /\ Len(conversations) = 2
    /\ conversations[1] # conversations[2]
    /\ \E f \in DOMAIN files : Len(files[f]) = 1
    /\ speaker_count > 0

\* C7: every utterance with text that is taken off the batch is appended with
\* its text (by the keyword rule alone when the scorer fails), the rest of the
\* batch stays to be ingested, and no script run ends with the scorer's
\* exception.
C7_ScorerFailureTolerated ==
    [][ TakesUtterance =>
            /\ Len(conversations') = Len(conversations) + 1
            /\ Last(conversations').text = audio_frame_callback(Head(audio_frames))
            /\ audio_frames' = Tail(audio_frames)
            /\ notice'[1] # "exception"
      ]_vars

\* C8: a save of an empty history writes no file and reports that there is
\* nothing to save; a save of k >= 1 entries reports one file, which holds
\* exactly k record blocks, the i-th being the block of the i-th entry, and
\* touches no other file.
C8_Export ==
    [][ SaveStep =>
          IF conversations = <<>>
          THEN files' = files /\ notice' = <<"No conversation to save yet">>
          ELSE /\ notice'[1] = "saved"
               /\ notice'[2] \in DOMAIN files'
               /\ DOMAIN files' = DOMAIN files \cup {notice'[2]}
               /\ Len(files'[notice'[2]]) = Len(conversations)
               /\ \A i \in 1..Len(conversations) :
                    files'[notice'[2]][i] = record_block(conversations[i])
               /\ \A f \in DOMAIN files \ {notice'[2]} : files'[f] = files[f]
      ]_vars

\* C8 happens: the last run saved a history of two entries
C8_Witness ==
    /\ notice[1] = "saved"
    /\ Len(conversations) = 2
    /\ Len(files[notice[2]]) = 2

\* C9: every successful save creates a file under a name no earlier save
\* used, and leaves every file written before as it was.
C9_ExportsDistinct ==
    [][ (SaveStep /\ notice'[1] = "saved") =>
            /\ notice'[2] \notin DOMAIN files
            /\ \A f \in DOMAIN files : files'[f] = files[f]
      ]_vars

Whitespace == {" ", "\t", "\n"}

\* C10: every stored entry's text has at least one character that is not
\* whitespace.
C10_NoBlankStored ==
    \A i \in 1..Len(conversations) :
        \E j \in 1..Len(conversations[i].text) :
            conversations[i].text[j] \notin Whitespace

===========================================================================
